---- MODULE Spec2Model ----
(***************************************************************************)
(* Model of deinterf's typed data container (utils/data_ioc/_data.py):     *)
(* DataDescriptor identity and rebinding, the DataIOC container with its   *)
(* resolved map and lazy builder table, and the IndexedDataIOC view;       *)
(* of the composable feature terms (foundation/_term.py) built in the      *)
(* container of foundation/_data.py; and of TollesLawsonCompensator        *)
(* (compensator.py).                                                       *)
(***************************************************************************)
EXTENDS Integers, Sequences, FiniteSets, TLC

VARIABLES coll, lazy, allow, nobj, inv, last, nops, vid, vcoll, vlazy, recv, dres,
          term, tree, fcoll, built, comp, cres, run

vars == <<coll, lazy, allow, nobj, inv, last, nops, vid, vcoll, vlazy, recv, dres,
          term, tree, fcoll, built, comp, cres, run>>

\* the feature terms (foundation/_term.py) and their container
\* (foundation/_data.py)
termVars == <<term, tree, fcoll, built>>

\* the compensator (compensator.py) and the outcome of the last call on it
compVars == <<comp, cres>>

\* the container, its view, and the call of __getitem__ in progress
iocVars == <<coll, lazy, allow, nobj, inv, last, nops, vid, vcoll, vlazy, run>>

(* ------------------------------ bounds -------------------------------- *)

\* number of container operations in one run
MaxOps == 3

\* number of operations, lookups among them, in a run whose lookups are
\* followed step by step
MaxRunOps == 2

\* number of rebinding operations applied to one descriptor in one run
MaxDescOps == 2

\* the public instance ids of the docstring example (Sensor, Sensor[1])
Ids == {0, 1}

\* signed id codes: -k-1 is the weak code of public id k
SignedIds == {-k - 1 : k \in Ids} \cup Ids

(* ------------------------------ types --------------------------------- *)

\* plain data types (instances of the IndexedType metaclass)
DataTypes == {"MagVector", "MagModulus"}

\* DataDescriptor and its subclasses, whose instances are the keys
DescTypes == {"DataDescriptor", "OffsetSensor0"}

Types == DataTypes \cup DescTypes

DefaultWeakID == -1

(* ---------------------------- descriptors ----------------------------- *)

\* a bare type used as a key
TypeKey(t) == [kind |-> "type", t |-> t, sid |-> 0]

\* cls(id=id): an instance of a descriptor class with the signed code id
DescKey(t, sid) == [kind |-> "desc", t |-> t, sid |-> sid]

\* IndexedDataTypeDescriptor(dtype, id=id): for a descriptor class __new__
\* returns dtype(id=id), for a data type a descriptor holding _dtype
IndexedDataTypeDescriptor(dtype, sid) == DescKey(dtype, sid)

\* DataDescriptor.signed_id
signed_id(d) == d.sid

\* a decoding of the weak code that is off by one
PublicIdOffByOne(d) == IF signed_id(d) < 0 THEN -signed_id(d) ELSE signed_id(d)

\* DataDescriptor.id: the public id, never negative
PublicId(d) == IF signed_id(d) < 0 THEN -signed_id(d) - 1 ELSE signed_id(d)

\* DataDescriptor.is_weak_id
is_weak_id(d) == signed_id(d) < 0

\* isinstance(key, IndexedDataTypeDescriptor)
IsIndexedDTD(key) == key.kind = "desc" /\ key.t \in DataTypes

\* DataDescriptor.__copy__: type(self)(**self.params), params holding the
\* public id, so the copy of a weak descriptor is strong until id is set
Copy(d) == [d EXCEPT !.sid = PublicId(d)]

\* a rebinding that ignores the strength of the receiver
IndexAlwaysRebind(d, new_index, weak, check_overriding) ==
    LET ni == IF new_index < 0 THEN new_index
              ELSE IF weak THEN -new_index - 1 ELSE new_index
    IN  [desc |-> [Copy(d) EXCEPT !.sid = ni], err |-> FALSE, fresh |-> TRUE]

\* DataDescriptor.index: [desc, err, fresh]; fresh says a copy was returned
Index(d, new_index, weak, check_overriding) ==
    LET w  == IF new_index < 0 THEN TRUE ELSE weak
        ni == IF new_index < 0 THEN new_index
              ELSE IF weak /\ new_index >= 0 THEN -new_index - 1 ELSE new_index
    IN  IF ~w \/ is_weak_id(d)
        THEN [desc |-> [Copy(d) EXCEPT !.sid = ni], err |-> FALSE, fresh |-> TRUE]
        ELSE IF check_overriding /\ ~w /\ ~is_weak_id(d)
             THEN [desc |-> d, err |-> TRUE, fresh |-> FALSE]
             ELSE [desc |-> d, err |-> FALSE, fresh |-> FALSE]

\* a weak rebinding that rebinds strongly
IndexWeakAsStrong(d, new_index, check_overriding) == Index(d, new_index, FALSE, check_overriding)

\* DataDescriptor.index_weak
index_weak(d, new_index, check_overriding) == Index(d, new_index, TRUE, check_overriding)

\* DataDescriptor.__getitem__: descriptor[k]
DescGetItem(d, index) == Index(d, index, FALSE, FALSE)

\* a rebinding that writes the new id into the receiver
ReceiverAfterInPlace(d, new_index, weak, check_overriding) ==
    Index(d, new_index, weak, check_overriding).desc

\* the receiver after index(new_index, weak, check_overriding): ret.id is
\* assigned only when ret is the copy, so what the call wrote it wrote to
\* the copy; when ret is self nothing is assigned
ReceiverAfter(d, new_index, weak, check_overriding) ==
    LET r == Index(d, new_index, weak, check_overriding)
    IN  IF r.fresh THEN d ELSE r.desc

\* DataDescriptor.__class_getitem__ with an int: cls(id=id)
ClassGetItem(t, id) == DescKey(t, id)

\* __hash__ / __eq__: the concrete type and the public id (and _dtype)
SlotOf(key) ==
    IF key.kind = "type" THEN key ELSE DescKey(key.t, PublicId(key))

(* -------------------------- descriptor identity ----------------------- *)

\* type(self): every descriptor of a plain data type is an instance of
\* IndexedDataTypeDescriptor, a descriptor class is its own type
TypeOf(d) == IF d.t \in DataTypes THEN "IndexedDataTypeDescriptor" ELSE d.t

\* an identity that looks at the id alone
KeysIdOnly(d) == {"id"}

\* DataDescriptor.keys: the slots of the class hierarchy with _id replaced
\* by id; IndexedDataTypeDescriptor adds the slot _dtype
keys(d) == IF d.t \in DataTypes THEN {"_dtype", "id"} ELSE {"id"}

\* an identity that reads the signed code where the public id is meant
GetAttrSigned(d, k) ==
    CASE k = "id" -> <<"int", signed_id(d)>>
      [] k = "_dtype" /\ d.t \in DataTypes -> <<"type", d.t>>
      [] OTHER -> <<"missing", d>>

\* getattr(d, k) for the keys of a descriptor; a missing attribute has no
\* value equal to any other
GetAttr(d, k) ==
    CASE k = "id" -> <<"int", PublicId(d)>>
      [] k = "_dtype" /\ d.t \in DataTypes -> <<"type", d.t>>
      [] OTHER -> <<"missing", d>>

\* DataDescriptor.__eq__
__eq__(self, other) ==
    IF TypeOf(self) # TypeOf(other) THEN FALSE
    ELSE \A k \in keys(self) : GetAttr(self, k) = GetAttr(other, k)

\* DataDescriptor.__hash__: the hash of the tuple of the keys' values, kept
\* as that tuple
__hash__(self) == [k \in keys(self) |-> GetAttr(self, k)]

(* ------------------- descriptor rebinding as a machine ---------------- *)

Descriptors == {DescKey(t, s) : t \in Types, s \in SignedIds}

NoDesc == [op |-> "none", new |-> 0, weak |-> FALSE, check |-> TRUE,
           before |-> DescKey("DataDescriptor", DefaultWeakID),
           desc |-> DescKey("DataDescriptor", DefaultWeakID),
           err |-> FALSE, fresh |-> FALSE, n |-> 0,
           eq |-> FALSE, hself |-> <<>>, hother |-> <<>>,
           self |-> DescKey("DataDescriptor", DefaultWeakID)]

DescResult(op, new, weak, check, r) ==
    [op |-> op, new |-> new, weak |-> weak, check |-> check, before |-> recv,
     desc |-> r.desc, err |-> r.err, fresh |-> r.fresh, n |-> dres.n + 1,
     eq |-> FALSE, hself |-> <<>>, hother |-> <<>>,
     self |-> ReceiverAfter(recv, new, weak, check)]

\* descriptor.index(new_index, weak, check_overriding); the caller keeps the
\* returned descriptor when the call returns
DoIndex ==
    /\ dres.n < MaxDescOps
    /\ \E new \in SignedIds, weak \in BOOLEAN, check \in BOOLEAN :
         LET r == Index(recv, new, weak, check)
         IN  /\ dres' = DescResult("index", new, weak, check, r)
             /\ recv' = r.desc
    /\ UNCHANGED iocVars
    /\ UNCHANGED termVars
    /\ UNCHANGED compVars

\* descriptor.index_weak(new_index)
DoIndexWeak ==
    /\ dres.n < MaxDescOps
    /\ \E new \in SignedIds, check \in BOOLEAN :
         LET r == index_weak(recv, new, check)
         IN  /\ dres' = DescResult("index_weak", new, TRUE, check, r)
             /\ recv' = r.desc
    /\ UNCHANGED iocVars
    /\ UNCHANGED termVars
    /\ UNCHANGED compVars

\* descriptor[new_index]
DoDescGetItem ==
    /\ dres.n < MaxDescOps
    /\ \E new \in SignedIds :
         LET r == DescGetItem(recv, new)
         IN  /\ dres' = DescResult("getitem", new, FALSE, FALSE, r)
             /\ recv' = r.desc
    /\ UNCHANGED iocVars
    /\ UNCHANGED termVars
    /\ UNCHANGED compVars

\* descriptor == other, hash(descriptor) and hash(other)
DoCompare ==
    /\ dres.n < MaxDescOps
    /\ \E other \in Descriptors :
         dres' = [NoDesc EXCEPT !.op = "eq", !.before = recv, !.desc = other,
                                !.n = dres.n + 1,
                                !.eq = __eq__(recv, other),
                                !.hself = __hash__(recv),
                                !.hother = __hash__(other),
                                !.self = recv]
    /\ UNCHANGED recv
    /\ UNCHANGED iocVars
    /\ UNCHANGED termVars
    /\ UNCHANGED compVars

(* ------------------------------ values -------------------------------- *)

\* the contents of the raw sensor data a caller binds
Data == {1, 2}

\* no entry in a map
Absent == [oid |-> -1, d |-> 0]

\* Python's None: what dict.get(key, None) also answers for a missing key
NoneVal == [oid |-> 0, d |-> 0]

\* a data object: its identity and its contents
Obj(oid, d) == [oid |-> oid, d |-> d]

\* the keys of the two dictionaries, up to __eq__ / __hash__
Slots == {TypeKey(t) : t \in Types} \cup {DescKey(t, k) : t \in Types, k \in Ids}

(* ------------------------------ builders ------------------------------ *)

\* no entry in the builder table
NoBuilder == [k |-> "none", t |-> "", sid |-> 0, ctx |-> <<>>]

\* hasattr(T, '__build__'): MagVector defines none, every descriptor class
\* inherits DataDescriptor.__build__
HasBuild(t) == t # "MagVector"

\* the keys a build method reads from the container it is given, in order:
\* MagModulus reads container[MagVector]; OffsetSensor0 reads the explicit
\* instance 0 and then the bare type of the raw sensor data
Deps(t) ==
    CASE t = "MagModulus"    -> <<TypeKey("MagVector")>>
      [] t = "OffsetSensor0" -> <<IndexedDataTypeDescriptor("MagVector", 0), TypeKey("MagVector")>>
      [] OTHER               -> <<>>

\* a binding that forgets the id
BindNoContext(idopt, b) == b

\* _bind_builder_context: no id leaves the builder as it is, an id wraps it
\* in partial(_bind_default_index, id, builder); ctx lists the wrappers'
\* ids, outermost first

_bind_builder_context(idopt, b) ==
    IF idopt = <<>> THEN b ELSE [b EXCEPT !.ctx = idopt \o @]

\* _extract_builder(dtype, id): dtype is a key-like object (a type or a
\* descriptor instance), idopt is <<>> for None and <<id>> otherwise
_extract_builder(x, idopt) ==
    LET id == IF x.kind = "desc" THEN <<signed_id(x)>> ELSE idopt
        fn == IF x.kind = "desc"
              \* a descriptor instance: its bound __build__
              THEN [k |-> IF x.t \in DataTypes THEN "idxbuild" ELSE "descbuild",
                    t |-> x.t, sid |-> signed_id(x), ctx |-> <<>>]
              ELSE IF HasBuild(x.t)
                   \* a class with __build__: a classmethod of a data type, the
                   \* plain function of a descriptor class
                   THEN [k |-> IF x.t \in DescTypes THEN "unbound" ELSE "typebuild",
                         t |-> x.t, sid |-> 0, ctx |-> <<>>]
                   \* any other callable: the constructor
                   ELSE [k |-> "ctor", t |-> x.t, sid |-> 0, ctx |-> <<>>]
    IN  _bind_builder_context(id, fn)

\* a lookup that prefers the builder of the bare type
FindBuilderBareFirst(lz, key) ==
    IF IsIndexedDTD(key) /\ lz[TypeKey(key.t)] # NoBuilder
    THEN _bind_builder_context(<<PublicId(key)>>, lz[TypeKey(key.t)])
    ELSE lz[SlotOf(key)]

\* DataIOC.find_builder
find_builder(lz, key) ==
    LET builder == lz[SlotOf(key)]
    IN  IF builder # NoBuilder THEN builder
        ELSE IF IsIndexedDTD(key)
             THEN LET generic == lz[TypeKey(key.t)]
                  IN  IF generic # NoBuilder
                      THEN _bind_builder_context(<<PublicId(key)>>, generic)
                      ELSE NoBuilder
             ELSE NoBuilder

\* DataIOC.__setitem__ on the resolved map c
SetItem(c, key, data) ==
    LET c1 == [c EXCEPT ![SlotOf(key)] = data]
        c2 == IF IsIndexedDTD(key) /\ PublicId(key) = 0
              THEN [c1 EXCEPT ![TypeKey(key.t)] = data] ELSE c1
    IN  IF key.kind = "type"
        THEN [c2 EXCEPT ![SlotOf(IndexedDataTypeDescriptor(key.t, DefaultWeakID))] = data]
        ELSE c2

\* a view that forwards every key unchanged
ViewKeyNoRebind(id, item) == item

\* a view that rebinds every key to its ambient id, explicit ids too
ViewKeyForceRebind(id, item) == IndexedDataTypeDescriptor(item.t, id)

\* IndexedDataIOC.__getitem__: the key one view with ambient id `id` hands
\* to its base container

ViewKey(id, item) ==
    IF item.kind = "desc"
    THEN index_weak(item, id, TRUE).desc
    ELSE IndexedDataTypeDescriptor(item.t, id)

\* a builder whose reads go to the base container whatever views it has
ThroughNoViews(views, item) == item

\* a lookup made on the innermost of nested views reaches the base
\* container with the key rewritten by every view, innermost (last) first
RECURSIVE ThroughViews(_, _)
ThroughViews(views, item) ==
    IF views = <<>> THEN item
    ELSE ThroughViews(SubSeq(views, 1, Len(views) - 1),
                      ViewKey(views[Len(views)], item))

(* ------------------------------ DataIOC -------------------------------- *)

\* DataIOC.add(data_type) with data omitted and a type or descriptor key:
\* registers the key's own build method, no builder is run
AddLazy(lz, key) == [lz EXCEPT ![SlotOf(key)] = _extract_builder(key, <<>>)]

\* DataIOC.add_provider(data_type, provider) on the builder table lz
AddProviderLazy(lz, key, provider) ==
    LET default_id == IF key.kind = "desc" THEN <<signed_id(key)>> ELSE <<>>
    IN  [lz EXCEPT ![SlotOf(key)] = _extract_builder(provider, default_id)]

\* what a build method returns from the values it read
BuildValue(t, vals) ==
    CASE t = "MagModulus"    -> vals[1].d + 10
      [] t = "OffsetSensor0" -> vals[1].d + vals[2].d
      [] OTHER               -> 0

\* the result of a lookup or of a builder: the container's state after it,
\* the value returned, and the error raised ("" when it returned)
Returned(st, ret) == [st |-> st, ret |-> ret, err |-> ""]

Raised(st, err) == [st |-> st, ret |-> NoneVal, err |-> err]

\* whether dict.get(key, None) answers a usable value
IsCached(v) == v # Absent /\ v # NoneVal

\* a container that registers implicitly whatever its flag says
AlwaysImplicitRegister == TRUE

\* self.allow_implicit_register as DataIOC.__getitem__ reads it: the flag
\* of the container whose __getitem__ runs, which is always the base

allow_implicit_register == allow

RECURSIVE DoGet(_, _)
RECURSIVE RunBuilder(_, _, _)
RECURSIVE ReadDeps(_, _, _, _)

\* DataIOC.__getitem__ on the container state st = [coll, lazy, nobj, inv, log]
DoGet(st, key) ==
    LET ret == st.coll[SlotOf(key)]
    IN  IF IsCached(ret) THEN Returned(st, ret)
        ELSE LET builder == find_builder(st.lazy, key)
             IN  IF builder = NoBuilder
                 THEN IF ~allow_implicit_register
                      THEN Raised(st, "notfound")
                      ELSE LET r == DoGet([st EXCEPT !.lazy = AddLazy(@, key)], key)
                           IN  IF r.err # "" THEN r
                               ELSE Returned([r.st EXCEPT !.coll = SetItem(@, key, r.ret)], r.ret)
                 ELSE LET r == RunBuilder([st EXCEPT !.inv[SlotOf(key)] = @ + 1], builder, <<>>)
                      IN  IF r.err # "" THEN r
                          ELSE Returned([r.st EXCEPT !.coll = SetItem(@, key, r.ret)], r.ret)

\* calling a builder with a container: views lists the ambient ids of the
\* IndexedDataIOC views stacked on the base container, innermost last.
\* _bind_default_index stacks one more view for every wrapper of the builder
RunBuilder(st, b, views) ==
    IF b.ctx # <<>>
    THEN RunBuilder(st, [b EXCEPT !.ctx = Tail(@)], Append(views, Head(b.ctx)))
    ELSE LET st1 == [st EXCEPT !.log = Append(@, [k |-> b.k, t |-> b.t, sid |-> b.sid, views |-> views])]
         IN  CASE b.k = "ctor" -> Raised(st1, "type")
               [] b.k = "unbound" -> Raised(st1, "type")
               [] b.k = "idxbuild" ->
                    RunBuilder(st1, _extract_builder(TypeKey(b.t), <<b.sid>>), views)
               [] OTHER ->
                    IF b.t = "DataDescriptor" THEN Returned(st1, NoneVal)
                    ELSE LET r == ReadDeps(st1, Deps(b.t), views, <<>>)
                         IN  IF r.err # "" THEN Raised(r.st, r.err)
                             ELSE Returned([r.st EXCEPT !.nobj = @ + 1],
                                           Obj(r.st.nobj + 1, BuildValue(b.t, r.ret)))

\* the reads container[dep] a build method makes, in order, on the
\* innermost view; a None among the values read makes the method raise
ReadDeps(st, deps, views, vals) ==
    IF deps = <<>> THEN [st |-> st, ret |-> vals, err |-> ""]
    ELSE LET r == DoGet(st, ThroughViews(views, Head(deps)))
         IN  IF r.err # "" THEN [st |-> r.st, ret |-> vals, err |-> r.err]
             ELSE IF r.ret = NoneVal THEN [st |-> r.st, ret |-> vals, err |-> "type"]
             ELSE ReadDeps(r.st, Tail(deps), views, Append(vals, r.ret))

(* --------------------------- IndexedDataIOC ---------------------------- *)

\* IndexedDataIOC.__init__ calls DataIOC.__init__, which gives the view its
\* own _collection, _lazy_collection and allow_implicit_register = True;
\* __getattr__ is consulted only for attributes the view does not have
ViewAllowImplicitRegister == TRUE

(* --------------------------- feature terms ---------------------------- *)

\* the leaf term classes and the number of columns each builds
LeafClasses == {"Permanent", "Induced5", "Eddy8"}

Width(cls) ==
    CASE cls = "Permanent" -> 3
      [] cls = "Induced5"  -> 5
      [] cls = "Eddy8"     -> 8
      [] OTHER             -> 0

\* a leaf term instance; sid is the signed instance id of the term
Leaf(cls, sid) == [kind |-> "desc", t |-> cls, sid |-> sid, terms |-> <<>>]

\* isinstance(term, Composition)
IsComposition(x) == x.t = "Composition"

\* a validation that keeps a composition as one element
ValidateNoFlatten(x) == <<x>>

\* Composition._validate: the term list of a composition, the one-element
\* list of any other term
_validate(x) == IF IsComposition(x) THEN x.terms ELSE <<x>>

\* Composition.__init__(term1, term2)
Composition(term1, term2) ==
    [kind |-> "desc", t |-> "Composition", sid |-> DefaultWeakID,
     terms |-> _validate(term1) \o _validate(term2)]

\* ComposableTerm.__or__
Or(self, other) == Composition(self, other)

\* an __init__ that extends the list _validate returned for term1
OperandsAfterExtend(term1, term2) ==
    <<IF IsComposition(term1) THEN [term1 EXCEPT !.terms = @ \o _validate(term2)] ELSE term1,
      term2>>

\* the two operands after Composition.__init__: terms1 + terms2 is a new
\* list, the lists _validate returned are read only
OperandsAfter(term1, term2) == <<term1, term2>>

\* composition[new_id]: a new Composition of the same leaves, each rebound
\* with index_weak
Retarget(c, new_id) ==
    [c EXCEPT !.terms = [i \in DOMAIN c.terms |-> index_weak(c.terms[i], new_id, TRUE).desc]]

\* the expression a term was written as: a leaf, or l | r
LeafNode(x) == [leaf |-> TRUE, x |-> x]

OrNode(l, r) == [leaf |-> FALSE, l |-> l, r |-> r]

NoTerm == Leaf("Permanent", DefaultWeakID)

(* ------------------ the container of foundation/_data.py --------------- *)

\* the instance ids of the raw data
FIds == {0, 1}

\* the number of samples of the raw data bound at an id
Rows(id) == id + 2

\* a matrix: its row count and the labels of its columns, in order
Block(rows, cols) == [rows |-> rows, cols |-> cols]

NoBlock == Block(0, <<>>)

\* the dictionaries of DataIOC._collection, one per class: has says whether
\* the class is a key, auto whether the dictionary is an AutoBuildDict,
\* factory is the term instance the AutoBuildDict's lambda captured, items
\* the Data stored per id
FClasses == LeafClasses \cup {"Composition"}

NoEntry == [has |-> FALSE, auto |-> FALSE, factory |-> NoTerm, items |-> [i \in FIds |-> NoBlock]]

EmptyFColl == [c \in FClasses |-> NoEntry]

\* the columns of container[DirectionalCosine][id], which Permanent returns
DirectionalCosineColumns == <<"cos_x", "cos_y", "cos_z">>

\* Induced6.__build__: the six products of two cosines, in the order of
\* its column_stack
Induced6Build == <<"cos_xx", "cos_xy", "cos_xz", "cos_yy", "cos_yz", "cos_zz">>

\* Eddy9.__build__: the nine products of a cosine and a derivative
Eddy9Build ==
    <<"cos_x_cos_x_dot", "cos_x_cos_y_dot", "cos_x_cos_z_dot",
      "cos_y_cos_x_dot", "cos_y_cos_y_dot", "cos_y_cos_z_dot",
      "cos_z_cos_x_dot", "cos_z_cos_y_dot", "cos_z_cos_z_dot">>

\* a deletion that removes the first column whatever the index
NpDeleteFirst(cols, obj) == Tail(cols)

\* np.delete(feats, obj, 1): the columns without the one of 0-based index obj
np_delete(cols, obj) == SubSeq(cols, 1, obj) \o SubSeq(cols, obj + 2, Len(cols))

\* Induced5.__build__: np.delete(feats, feats.shape[1] // 2, 1)
Induced5Build == np_delete(Induced6Build, Len(Induced6Build) \div 2)

\* Eddy8.__build__: np.delete(feats, feats.shape[1] // 2, 1)
Eddy8Build == np_delete(Eddy9Build, Len(Eddy9Build) \div 2)

\* the columns the __build__ of a leaf class computes
TermColumns(cls) ==
    CASE cls = "Permanent" -> DirectionalCosineColumns
      [] cls = "Induced5"  -> Induced5Build
      [] cls = "Eddy8"     -> Eddy8Build
      [] OTHER             -> <<>>

\* the columns a leaf term's __build__ computes for the data of one id
LeafBlock(cls, id) == Block(Rows(id), TermColumns(cls))

\* a stacking that keeps one copy of a repeated block
RECURSIVE DedupBlocks(_)
DedupBlocks(blocks) ==
    IF blocks = <<>> THEN <<>>
    ELSE LET rest == DedupBlocks(SubSeq(blocks, 1, Len(blocks) - 1))
             b    == blocks[Len(blocks)]
         IN  IF \E i \in DOMAIN rest : rest[i] = b THEN rest ELSE Append(rest, b)

RECURSIVE ConcatCols(_)
ConcatCols(blocks) ==
    IF blocks = <<>> THEN <<>> ELSE Head(blocks).cols \o ConcatCols(Tail(blocks))

ColumnStackDedup(blocks) ==
    [err |-> "", block |-> Block(Head(blocks).rows, ConcatCols(DedupBlocks(blocks)))]

\* np.column_stack: the columns of the blocks side by side, in order; blocks
\* of different row counts are refused
column_stack(blocks) ==
    IF \E i \in DOMAIN blocks : blocks[i].rows # blocks[1].rows
    THEN [err |-> "value", block |-> NoBlock]
    ELSE [err |-> "", block |-> Block(blocks[1].rows, ConcatCols(blocks))]

\* matrix.T: the columns of a matrix, one by one
Transpose(b) == [i \in DOMAIN b.cols |-> Block(b.rows, <<b.cols[i]>>)]

\* Data(*columns): check_consistent_length, then the columns stacked
FData(columns) == column_stack(columns)

RECURSIVE FLookup(_, _, _)
RECURSIVE TermBuild(_, _, _)
RECURSIVE BuildTerms(_, _, _, _)

\* container[x][id] for a term instance x: DataIOC.__getitem__ makes the
\* class a key with an AutoBuildDict around the instance when it is none,
\* and the dictionary's __missing__ builds and stores what it lacks
FLookup(fc, x, id) ==
    LET fc1 == IF fc[x.t].has THEN fc
               ELSE [fc EXCEPT ![x.t] = [NoEntry EXCEPT !.has = TRUE, !.auto = TRUE, !.factory = x]]
        e   == fc1[x.t]
    IN  IF e.items[id] # NoBlock THEN [fc |-> fc1, block |-> e.items[id], err |-> ""]
        ELSE IF ~e.auto THEN [fc |-> fc1, block |-> NoBlock, err |-> "key"]
        ELSE LET r == TermBuild(fc1, e.factory, id)
             IN  IF r.err # "" THEN r
                 ELSE [fc |-> [r.fc EXCEPT ![x.t].items[id] = r.block],
                       block |-> r.block, err |-> ""]

\* DataIOC.build: x.__build__(container, id)
TermBuild(fc, x, id) ==
    IF IsComposition(x)
    THEN LET r == BuildTerms(fc, x.terms, id, <<>>)
         IN  IF r.err # "" THEN [fc |-> r.fc, block |-> NoBlock, err |-> r.err]
             ELSE LET terms_d == column_stack(r.blocks)
                  IN  IF terms_d.err # "" THEN [fc |-> r.fc, block |-> NoBlock, err |-> terms_d.err]
                      ELSE LET d == FData(Transpose(terms_d.block))
                           IN  [fc |-> r.fc, block |-> d.block, err |-> d.err]
    ELSE [fc |-> fc, block |-> LeafBlock(x.t, id), err |-> ""]

\* [container[term][id].data for term in self.terms]
BuildTerms(fc, ts, id, blocks) ==
    IF ts = <<>> THEN [fc |-> fc, blocks |-> blocks, err |-> ""]
    ELSE LET r == FLookup(fc, Head(ts), id)
         IN  IF r.err # "" THEN [fc |-> r.fc, blocks |-> blocks, err |-> r.err]
             ELSE BuildTerms(r.fc, Tail(ts), id, Append(blocks, r.block))

\* the state the terms and their container have while they are not used
TermIdle ==
    /\ term = NoTerm
    /\ tree = LeafNode(NoTerm)
    /\ fcoll = EmptyFColl
    /\ built = [block |-> NoBlock, id |-> 0, err |-> "", of |-> NoTerm, op |-> "none", n |-> 0, res |-> NoTerm,
             operands |-> <<>>, after |-> <<>>]

(* --------------------- TollesLawsonCompensator ------------------------ *)

\* the columns _compute_directional_cosine_components names, in the order
\* of its three lists
permanent_items == <<"cos_x", "cos_y", "cos_z">>

induced_items == <<"cos_xx", "cos_xy", "cos_xz", "cos_yy", "cos_yz", "cos_zz">>

eddy_items ==
    <<"cos_x_cos_x_dot", "cos_x_cos_y_dot", "cos_x_cos_z_dot",
      "cos_y_cos_x_dot", "cos_y_cos_y_dot", "cos_y_cos_z_dot",
      "cos_z_cos_x_dot", "cos_z_cos_y_dot", "cos_z_cos_z_dot">>

\* [item for item in items if item is not dropped]
RECURSIVE Without(_, _)
Without(items, dropped) ==
    IF items = <<>> THEN <<>>
    ELSE IF Head(items) = dropped THEN Without(Tail(items), dropped)
         ELSE <<Head(items)>> \o Without(Tail(items), dropped)

\* a selection that leaves the 16-coefficient lists as long as the others
ComponentsNeverReduced(c) ==
    [permanent |-> permanent_items, induced |-> induced_items, eddy |-> eddy_items]

\* _compute_directional_cosine_components: the three lists for the
\* compensator c
_compute_directional_cosine_components(c) ==
    IF c.coefficients_num = 16
    THEN [permanent |-> permanent_items,
          induced   |-> Without(induced_items, "cos_yy"),
          eddy      |-> Without(eddy_items, "cos_y_cos_y_dot")]
    ELSE [permanent |-> permanent_items, induced |-> induced_items, eddy |-> eddy_items]

\* make_X(vector_x, vector_y, vector_z) for three sequences of lengths
\* lx, ly, lz: np.c_ refuses sequences of different lengths, np.column_stack
\* an empty list of features
make_X(c, lx, ly, lz) ==
    LET items    == _compute_directional_cosine_components(c)
        features == (IF c.using_permanent THEN items.permanent ELSE <<>>)
                    \o (IF c.using_induced THEN items.induced ELSE <<>>)
                    \o (IF c.using_eddy THEN items.eddy ELSE <<>>)
    IN  IF lx # ly \/ ly # lz THEN [err |-> "value", block |-> NoBlock]
        ELSE IF features = <<>> THEN [err |-> "value", block |-> NoBlock]
        ELSE [err |-> "", block |-> Block(lx, features)]

\* the data fit stored: whether fit was called, the lengths of the four
\* sequences and which recording they are
NoSrc == [set |-> FALSE, lx |-> 0, ly |-> 0, lz |-> 0, ls |-> 0, rec |-> 0]

\* a fitted model, known by what it was fitted on
NoModel == [fitted |-> FALSE, X |-> NoBlock, rec |-> 0, do_bpf |-> FALSE, fs |-> 0]

\* TollesLawsonCompensator.__init__(coefficients_num)
NewCompensator(num) ==
    [coefficients_num |-> num, do_bpf |-> TRUE, using_permanent |-> TRUE,
     using_induced |-> TRUE, using_eddy |-> TRUE, sampling_rate |-> 10,
     src |-> NoSrc, model |-> NoModel]

\* the model property body: RidgeCV().fit(self.X, self.y). X and y read
\* the stored data, which is an AttributeError before fit; the regression
\* refuses X and y of different lengths
FitModel(c) ==
    IF ~c.src.set THEN [err |-> "attribute", model |-> NoModel]
    ELSE LET X == make_X(c, c.src.lx, c.src.ly, c.src.lz)
         IN  IF X.err # "" THEN [err |-> X.err, model |-> NoModel]
             ELSE IF X.block.rows # c.src.ls THEN [err |-> "value", model |-> NoModel]
             ELSE [err |-> "",
                   model |-> [fitted |-> TRUE, X |-> X.block, rec |-> c.src.rec,
                              do_bpf |-> c.do_bpf,
                              fs |-> IF c.do_bpf THEN c.sampling_rate ELSE 0]]

NoCall == [op |-> "none", err |-> "", block |-> NoBlock, model |-> NoModel, arg |-> <<>>, n |-> 0]

\* the state the compensator has while it is not used
CompIdle ==
    /\ comp = NewCompensator(16)
    /\ cres = NoCall

(* ------------------------------ the state ------------------------------ *)

EmptyColl == [s \in Slots |-> Absent]

EmptyLazy == [s \in Slots |-> NoBuilder]

NoKey == [kind |-> "none", t |-> "", sid |-> 0]

NoLast == [op |-> "init", key |-> NoKey, parg |-> NoKey, err |-> "",
           ret |-> NoneVal, log |-> <<>>]

\* DataIOC.with_data(*data): a plain object d is bound under type(d), a
\* DescribedData under its descriptor; args lists <<key-like, contents>>,
\* the objects are numbered from n + 1
RECURSIVE WithDataColl(_, _, _)
WithDataColl(c, n, args) ==
    IF args = <<>> THEN c
    ELSE WithDataColl(SetItem(c, Head(args)[1], Obj(n + 1, Head(args)[2])), n + 1, Tail(args))

\* DataIOC().with_data(SensorData(..), SensorData[1](..)) of the docstring
DocstringData == <<<<TypeKey("MagVector"), 1>>, <<IndexedDataTypeDescriptor("MagVector", 1), 2>>>>

(* --------------- a call of DataIOC.__getitem__, step by step ---------- *)

\* the frame of a call of __getitem__(key): pc is start before the cache is
\* read, wait while the call it made runs, store when that call returned val
GetFrame(key) ==
    [f |-> "get", key |-> key, pc |-> "start", b |-> NoBuilder, views |-> <<>>,
     deps |-> <<>>, vals |-> <<>>, val |-> NoneVal]

\* the frame of a call of the builder b: views are the views stacked so far,
\* deps the reads its __build__ has still to make, vals the values read
BuildFrame(b) ==
    [f |-> "build", key |-> NoKey, pc |-> "enter", b |-> b, views |-> <<>>,
     deps |-> <<>>, vals |-> <<>>, val |-> NoneVal]

\* no call was made yet
NoRun ==
    [status |-> "idle", stack |-> <<>>, key |-> NoKey, ret |-> NoneVal, err |-> "",
     depth |-> 0, at |-> [coll |-> EmptyColl, lazy |-> EmptyLazy, nobj |-> 0]]

Top(stack) == stack[Len(stack)]

Pop(stack) == SubSeq(stack, 1, Len(stack) - 1)

SetTop(stack, f) == [stack EXCEPT ![Len(stack)] = f]

\* a lookup that starts over when the builder returned None
OnReturnRetry(f, v) ==
    IF f.f = "get"
    THEN IF v = NoneVal THEN [f EXCEPT !.pc = "start"] ELSE [f EXCEPT !.pc = "store", !.val = v]
    ELSE IF v = NoneVal THEN [f EXCEPT !.pc = "raise"]
         ELSE [f EXCEPT !.pc = "read", !.vals = Append(@, v), !.deps = Tail(@)]

\* the frame f when the call it waits for returned v: __getitem__ goes on
\* to self[dtype] = ret, a __build__ uses the value it read and raises on None
OnReturn(f, v) ==
    IF f.f = "get" THEN [f EXCEPT !.pc = "store", !.val = v]
    ELSE IF v = NoneVal THEN [f EXCEPT !.pc = "raise"]
         ELSE [f EXCEPT !.pc = "read", !.vals = Append(@, v), !.deps = Tail(@)]

\* the top frame returns v to its caller
Returning(m, v) ==
    LET rest == Pop(m.stack)
    IN  IF rest = <<>> THEN [m EXCEPT !.stack = <<>>, !.status = "returned", !.ret = v]
        ELSE [m EXCEPT !.stack = SetTop(rest, OnReturn(Top(rest), v))]

\* the top frame raises: no frame of the container catches, the call ends
Raising(m, e) == [m EXCEPT !.stack = <<>>, !.status = "raised", !.err = e]

\* the top frame calls: it waits and the frame g is entered
Calling(m, g) ==
    [m EXCEPT !.stack = Append(SetTop(@, [Top(@) EXCEPT !.pc = "wait"]), g)]

\* one step of the top frame on m = [coll, lazy, nobj, stack, status, ret, err]
RunStep(m) ==
    LET f == Top(m.stack)
    IN  CASE f.f = "get" /\ f.pc = "start" ->
               LET ret == m.coll[SlotOf(f.key)]
               IN  IF IsCached(ret) THEN Returning(m, ret)
                   ELSE LET builder == find_builder(m.lazy, f.key)
                        IN  IF builder = NoBuilder
                            THEN IF ~allow_implicit_register
                                 THEN Raising(m, "notfound")
                                 ELSE Calling([m EXCEPT !.lazy = AddLazy(@, f.key)], GetFrame(f.key))
                            ELSE Calling(m, BuildFrame(builder))
          [] f.f = "get" /\ f.pc = "store" ->
               Returning([m EXCEPT !.coll = SetItem(@, f.key, f.val)], f.val)
          [] f.f = "build" /\ f.pc = "enter" ->
               IF f.b.ctx # <<>>
               THEN [m EXCEPT !.stack = SetTop(@, [f EXCEPT !.views = Append(@, Head(f.b.ctx)),
                                                            !.b.ctx = Tail(@)])]
               ELSE CASE f.b.k \in {"ctor", "unbound"} -> Raising(m, "type")
                      [] f.b.k = "idxbuild" ->
                           [m EXCEPT !.stack = SetTop(@, [f EXCEPT !.b = _extract_builder(TypeKey(f.b.t), <<f.b.sid>>)])]
                      [] OTHER ->
                           IF f.b.t = "DataDescriptor" THEN Returning(m, NoneVal)
                           ELSE [m EXCEPT !.stack = SetTop(@, [f EXCEPT !.pc = "read", !.deps = Deps(f.b.t)])]
          [] f.f = "build" /\ f.pc = "read" ->
               IF f.deps = <<>>
               THEN Returning([m EXCEPT !.nobj = @ + 1], Obj(m.nobj + 1, BuildValue(f.b.t, f.vals)))
               ELSE Calling(m, GetFrame(ThroughViews(f.views, Head(f.deps))))
          [] f.f = "build" /\ f.pc = "raise" -> Raising(m, "type")
          [] OTHER -> m

IocInit ==
    /\ allow \in BOOLEAN
    /\ run = NoRun
    /\ \E pre \in BOOLEAN :
         /\ coll = IF pre THEN WithDataColl(EmptyColl, 0, DocstringData) ELSE EmptyColl
         /\ nobj = IF pre THEN Len(DocstringData) ELSE 0
    /\ lazy = EmptyLazy
    /\ inv = [s \in Slots |-> 0]
    /\ last = NoLast
    /\ nops = 0
    /\ vcoll = EmptyColl
    /\ vlazy = EmptyLazy
    /\ TermIdle
    /\ CompIdle

DescInit ==
    /\ recv \in {DescKey(t, DefaultWeakID) : t \in Types}
                \cup {ClassGetItem(t, k) : t \in Types, k \in Ids}
    /\ dres = NoDesc

\* a container, and a view IndexedDataIOC(container) with the default id
Init ==
    /\ IocInit
    /\ vid = DefaultWeakID
    /\ recv = DescKey("DataDescriptor", DefaultWeakID)
    /\ dres = NoDesc

(* ----------------------------- inputs ---------------------------------- *)

\* keys bound with container[key] = data: a descriptor class, bare and
\* as its instance 0
SetKeys == {TypeKey("OffsetSensor0"), ClassGetItem("OffsetSensor0", 0)}

\* the arguments of with_data: a plain MagVector, and MagVector[1](..)
WithDataArgs == {TypeKey("MagVector"), IndexedDataTypeDescriptor("MagVector", 1)}

\* keys registered with add(key)
AddKeys ==
    {TypeKey("MagModulus"), IndexedDataTypeDescriptor("MagModulus", 1),
     ClassGetItem("OffsetSensor0", 1)}

\* keys registered with add_provider
ProviderKeys ==
    {TypeKey("MagModulus"), IndexedDataTypeDescriptor("MagModulus", 0),
     IndexedDataTypeDescriptor("MagModulus", 1)}

\* providers: a callable without __build__, a type with __build__, and
\* descriptor instances, one strong and one weak
Providers ==
    {TypeKey("MagVector"), TypeKey("MagModulus"),
     ClassGetItem("OffsetSensor0", 0), DescKey("OffsetSensor0", DefaultWeakID)}

\* keys looked up: every type bare, explicit ids, and weak ids
GetKeys ==
    {TypeKey(t) : t \in Types \ {"DataDescriptor"}}
    \cup {DescKey(t, k) : t \in Types \ {"DataDescriptor"}, k \in Ids}
    \cup {ClassGetItem("DataDescriptor", 0),
          DescKey("MagModulus", -2), DescKey("OffsetSensor0", -2),
          DescKey("OffsetSensor0", DefaultWeakID)}

(* ----------------------------- operations ------------------------------ *)

Done(op, key, parg, err, ret, log) ==
    /\ last' = [op |-> op, key |-> key, parg |-> parg, err |-> err, ret |-> ret, log |-> log]
    /\ nops' = nops + 1

\* container[key] = data, and the eager bind container.add(key, data),
\* which is the same assignment
Set ==
    /\ nops < MaxOps
    /\ \E key \in SetKeys, d \in Data :
         /\ coll' = SetItem(coll, key, Obj(nobj + 1, d))
         /\ nobj' = nobj + 1
         /\ Done("set", key, NoKey, "", Obj(nobj + 1, d), <<>>)
    /\ UNCHANGED <<lazy, allow, inv, vid, vcoll, vlazy, recv, dres, term, tree, fcoll, built, comp, cres, run>>

\* container.with_data(x), and container.add(x) for a realized object x,
\* which calls with_data(x)
WithData ==
    /\ nops < MaxOps
    /\ \E arg \in WithDataArgs, d \in Data :
         /\ coll' = WithDataColl(coll, nobj, <<<<arg, d>>>>)
         /\ nobj' = nobj + 1
         /\ Done("with_data", arg, NoKey, "", Obj(nobj + 1, d), <<>>)
    /\ UNCHANGED <<lazy, allow, inv, vid, vcoll, vlazy, recv, dres, term, tree, fcoll, built, comp, cres, run>>

\* an add that binds eagerly: registers the build method and looks the key
\* up at once
AddEager ==
    /\ nops < MaxOps
    /\ \E key \in AddKeys :
         LET r == DoGet([coll |-> coll, lazy |-> AddLazy(lazy, key), nobj |-> nobj,
                         inv |-> inv, log |-> <<>>], key)
         IN  /\ coll' = r.st.coll
             /\ lazy' = r.st.lazy
             /\ nobj' = r.st.nobj
             /\ inv' = r.st.inv
             /\ Done("add", key, NoKey, "", NoneVal, r.st.log)
    /\ UNCHANGED <<allow, vid, vcoll, vlazy, recv, dres, term, tree, fcoll, built, comp, cres, run>>

\* container.add(key): deferred bind
Add ==
    /\ nops < MaxOps
    /\ \E key \in AddKeys :
         /\ lazy' = AddLazy(lazy, key)
         /\ Done("add", key, NoKey, "", NoneVal, <<>>)
    /\ UNCHANGED <<coll, allow, nobj, inv, vid, vcoll, vlazy, recv, dres, term, tree, fcoll, built, comp, cres, run>>

\* container.add_provider(key, provider)
AddProvider ==
    /\ nops < MaxOps
    /\ \E key \in ProviderKeys, provider \in Providers :
         /\ lazy' = AddProviderLazy(lazy, key, provider)
         /\ Done("add_provider", key, provider, "", NoneVal, <<>>)
    /\ UNCHANGED <<coll, allow, nobj, inv, vid, vcoll, vlazy, recv, dres, term, tree, fcoll, built, comp, cres, run>>

\* container[key]: what the call changes is kept also when it raises
Get ==
    /\ nops < MaxOps
    /\ \E key \in GetKeys :
         LET r == DoGet([coll |-> coll, lazy |-> lazy, nobj |-> nobj, inv |-> inv, log |-> <<>>], key)
         IN  /\ coll' = r.st.coll
             /\ lazy' = r.st.lazy
             /\ nobj' = r.st.nobj
             /\ inv' = r.st.inv
             /\ Done("get", key, NoKey, r.err, r.ret, r.st.log)
    /\ UNCHANGED <<allow, vid, vcoll, vlazy, recv, dres, term, tree, fcoll, built, comp, cres, run>>

(* ---------------------- operations through a view --------------------- *)

\* keys looked up through the view
ViewGetKeys ==
    {TypeKey("MagVector"), TypeKey("MagModulus"),
     DescKey("MagModulus", DefaultWeakID), DescKey("OffsetSensor0", DefaultWeakID),
     DescKey("DataDescriptor", DefaultWeakID),
     IndexedDataTypeDescriptor("MagVector", 0), IndexedDataTypeDescriptor("MagVector", 1),
     ClassGetItem("OffsetSensor0", 0)}

\* keys bound or registered through the view
ViewRegKeys == {TypeKey("MagModulus"), IndexedDataTypeDescriptor("MagModulus", 1)}

\* view[key]: IndexedDataIOC.__getitem__ forwards to the base container
ViewGet ==
    /\ nops < MaxOps
    /\ \E key \in ViewGetKeys :
         LET r == DoGet([coll |-> coll, lazy |-> lazy, nobj |-> nobj, inv |-> inv, log |-> <<>>],
                        ViewKey(vid, key))
         IN  /\ coll' = r.st.coll
             /\ lazy' = r.st.lazy
             /\ nobj' = r.st.nobj
             /\ inv' = r.st.inv
             /\ Done("viewget", key, NoKey, r.err, r.ret, r.st.log)
    /\ UNCHANGED <<allow, vid, vcoll, vlazy, recv, dres, term, tree, fcoll, built, comp, cres, run>>

\* view[key] = data and view.add(key, data): the inherited
\* DataIOC.__setitem__ writes self._collection, which the view owns
ViewSet ==
    /\ nops < MaxOps
    /\ \E key \in ViewRegKeys :
         /\ vcoll' = SetItem(vcoll, key, Obj(nobj + 1, 1))
         /\ nobj' = nobj + 1
         /\ Done("viewset", key, NoKey, "", Obj(nobj + 1, 1), <<>>)
    /\ UNCHANGED <<coll, lazy, allow, inv, vid, vlazy, recv, dres, term, tree, fcoll, built, comp, cres, run>>

\* view.with_data(x): the inherited method assigns self[...] = x
ViewWithData ==
    /\ nops < MaxOps
    /\ \E arg \in WithDataArgs :
         /\ vcoll' = WithDataColl(vcoll, nobj, <<<<arg, 1>>>>)
         /\ nobj' = nobj + 1
         /\ Done("viewwith_data", arg, NoKey, "", Obj(nobj + 1, 1), <<>>)
    /\ UNCHANGED <<coll, lazy, allow, inv, vid, vlazy, recv, dres, term, tree, fcoll, built, comp, cres, run>>

\* view.add(key): the inherited method writes self._lazy_collection
ViewAdd ==
    /\ nops < MaxOps
    /\ \E key \in ViewRegKeys :
         /\ vlazy' = AddLazy(vlazy, key)
         /\ Done("viewadd", key, NoKey, "", NoneVal, <<>>)
    /\ UNCHANGED <<coll, lazy, allow, nobj, inv, vid, vcoll, recv, dres, term, tree, fcoll, built, comp, cres, run>>

\* view.add_provider(key, provider)
ViewAddProvider ==
    /\ nops < MaxOps
    /\ \E key \in ViewRegKeys, provider \in {ClassGetItem("OffsetSensor0", 0)} :
         /\ vlazy' = AddProviderLazy(vlazy, key, provider)
         /\ Done("viewadd_provider", key, provider, "", NoneVal, <<>>)
    /\ UNCHANGED <<coll, lazy, allow, nobj, inv, vid, vcoll, recv, dres, term, tree, fcoll, built, comp, cres, run>>

\* container[key] on the base, for the keys the view's users registered
BaseGet ==
    /\ nops < MaxOps
    /\ \E key \in ViewRegKeys \cup {IndexedDataTypeDescriptor("MagVector", 1)} :
         LET r == DoGet([coll |-> coll, lazy |-> lazy, nobj |-> nobj, inv |-> inv, log |-> <<>>], key)
         IN  /\ coll' = r.st.coll
             /\ lazy' = r.st.lazy
             /\ nobj' = r.st.nobj
             /\ inv' = r.st.inv
             /\ Done("get", key, NoKey, r.err, r.ret, r.st.log)
    /\ UNCHANGED <<allow, vid, vcoll, vlazy, recv, dres, term, tree, fcoll, built, comp, cres, run>>

\* container.add(key) on the base
BaseAdd ==
    /\ nops < MaxOps
    /\ \E key \in ViewRegKeys :
         /\ lazy' = AddLazy(lazy, key)
         /\ Done("add", key, NoKey, "", NoneVal, <<>>)
    /\ UNCHANGED <<coll, allow, nobj, inv, vid, vcoll, vlazy, recv, dres, term, tree, fcoll, built, comp, cres, run>>

(* --------------------------- specifications ---------------------------- *)

Next == Set \/ WithData \/ Add \/ AddProvider \/ Get

Spec == Init /\ [][Next]_vars

\* a caller that registers and binds between lookups, each lookup run
\* step by step to its end

\* container[key] is called
Call ==
    /\ run.status # "running"
    /\ nops < MaxRunOps
    /\ \E key \in GetKeys :
         run' = [status |-> "running", stack |-> <<GetFrame(key)>>, key |-> key,
                 ret |-> NoneVal, err |-> "", depth |-> 1,
                 at |-> [coll |-> coll, lazy |-> lazy, nobj |-> nobj]]
    /\ nops' = nops + 1
    /\ UNCHANGED <<coll, lazy, allow, nobj, inv, last, vid, vcoll, vlazy, recv, dres, term, tree, fcoll, built, comp, cres>>

\* the call in progress makes its next step
Step ==
    /\ run.status = "running"
    /\ LET m == RunStep([coll |-> coll, lazy |-> lazy, nobj |-> nobj, stack |-> run.stack,
                         status |-> "running", ret |-> NoneVal, err |-> ""])
       IN  /\ coll' = m.coll
           /\ lazy' = m.lazy
           /\ nobj' = m.nobj
           /\ run' = [run EXCEPT !.stack = m.stack, !.status = m.status, !.ret = m.ret,
                                 !.err = m.err,
                                 !.depth = IF Len(m.stack) > @ THEN Len(m.stack) ELSE @]
    /\ UNCHANGED <<allow, inv, last, nops, vid, vcoll, vlazy, recv, dres, term, tree, fcoll, built, comp, cres>>

\* between two lookups the caller binds data or registers a builder
RunSetup ==
    /\ run.status # "running"
    /\ nops < MaxRunOps
    /\ (Set \/ WithData \/ Add \/ AddProvider)

RunNext == Call \/ Step \/ RunSetup

\* the interpreter runs a call that was made until it returns or raises
SpecRun == Init /\ [][RunNext]_vars /\ WF_vars(Step)

\* a base container and a view IndexedDataIOC(container, id) held by a caller
ViewInit ==
    /\ IocInit
    /\ vid \in {DefaultWeakID} \cup Ids
    /\ recv = DescKey("DataDescriptor", DefaultWeakID)
    /\ dres = NoDesc

ViewNext == ViewGet \/ ViewSet \/ ViewWithData \/ ViewAdd \/ ViewAddProvider \/ BaseGet \/ BaseAdd

SpecView == ViewInit /\ [][ViewNext]_vars

\* a descriptor that is rebound; the container is not used
IocIdle ==
    /\ coll = EmptyColl /\ lazy = EmptyLazy /\ allow = TRUE /\ nobj = 0
    /\ inv = [s \in Slots |-> 0] /\ last = NoLast /\ nops = 0
    /\ vid = DefaultWeakID /\ vcoll = EmptyColl /\ vlazy = EmptyLazy
    /\ run = NoRun

DescIdle == IocIdle /\ TermIdle /\ CompIdle

DescSpecInit == DescInit /\ DescIdle

DescNext == DoIndex \/ DoIndexWeak \/ DoDescGetItem \/ DoCompare

SpecDesc == DescSpecInit /\ [][DescNext]_vars

(* ------------------------ operations on terms ------------------------- *)

\* the most leaves one composition is given
MaxLeaves == 3

\* the number of builds and lookups made on one container
MaxBuilds == 2

\* the leaf terms an expression starts from
LeafPool ==
    {Leaf("Permanent", DefaultWeakID), Leaf("Induced5", DefaultWeakID), Leaf("Eddy8", 1)}

\* the operands a caller joins to a term: a leaf, or a parenthesised l | r
OperandTrees ==
    {LeafNode(Leaf("Induced5", DefaultWeakID)), LeafNode(Leaf("Eddy8", 1)),
     OrNode(LeafNode(Leaf("Induced5", DefaultWeakID)), LeafNode(Leaf("Eddy8", 1)))}

\* the term an expression evaluates to
RECURSIVE Eval(_)
Eval(e) == IF e.leaf THEN e.x ELSE Or(Eval(e.l), Eval(e.r))

\* the number of leaves an expression names
RECURSIVE CountLeaves(_)
CountLeaves(e) == IF e.leaf THEN 1 ELSE CountLeaves(e.l) + CountLeaves(e.r)

\* the record of l | r: the operands as they were, the Composition
\* returned and the operands as they are after the call
Joined(l, r) ==
    [block |-> NoBlock, id |-> 0, err |-> "", of |-> l, op |-> "or", n |-> built.n,
     res |-> Or(l, r), operands |-> <<l, r>>, after |-> OperandsAfter(l, r)]

\* term | operand
OrRight ==
    /\ \E e \in OperandTrees :
         /\ CountLeaves(tree) + CountLeaves(e) <= MaxLeaves
         /\ term' = Or(term, Eval(e))
         /\ tree' = OrNode(tree, e)
         /\ built' = Joined(term, Eval(e))
    /\ UNCHANGED fcoll
    /\ UNCHANGED iocVars
    /\ UNCHANGED <<recv, dres, comp, cres>>

\* operand | term
OrLeft ==
    /\ \E e \in OperandTrees :
         /\ CountLeaves(tree) + CountLeaves(e) <= MaxLeaves
         /\ term' = Or(Eval(e), term)
         /\ tree' = OrNode(e, tree)
         /\ built' = Joined(Eval(e), term)
    /\ UNCHANGED fcoll
    /\ UNCHANGED iocVars
    /\ UNCHANGED <<recv, dres, comp, cres>>

\* term.__build__(container, id) called on a composition
FBuild ==
    /\ built.n < MaxBuilds
    /\ IsComposition(term)
    /\ \E id \in FIds :
         LET r == TermBuild(fcoll, term, id)
         IN  /\ fcoll' = r.fc
             /\ built' = [block |-> r.block, id |-> id, err |-> r.err, of |-> term, op |-> "build",
                         n |-> built.n + 1, res |-> NoTerm,
                         operands |-> <<>>, after |-> <<>>]
    /\ UNCHANGED <<term, tree>>
    /\ UNCHANGED iocVars
    /\ UNCHANGED <<recv, dres, comp, cres>>

\* container[term][id]
FGet ==
    /\ built.n < MaxBuilds
    /\ \E id \in FIds :
         LET r == FLookup(fcoll, term, id)
         IN  /\ fcoll' = r.fc
             /\ built' = [block |-> r.block, id |-> id, err |-> r.err, of |-> term, op |-> "get",
                         n |-> built.n + 1, res |-> NoTerm,
                         operands |-> <<>>, after |-> <<>>]
    /\ UNCHANGED <<term, tree>>
    /\ UNCHANGED iocVars
    /\ UNCHANGED <<recv, dres, comp, cres>>

\* the ids a composition is retargeted at
RetargetIds == {1, 2}

\* composition[new_id]; the caller holds the composition and the result
DoRetarget ==
    /\ built.n < MaxBuilds
    /\ IsComposition(term)
    /\ \E id \in RetargetIds :
         built' = [block |-> NoBlock, id |-> id, err |-> "", of |-> term, op |-> "retarget",
                   n |-> built.n + 1, res |-> Retarget(term, id),
                   operands |-> <<>>, after |-> <<>>]
    /\ UNCHANGED <<term, tree, fcoll>>
    /\ UNCHANGED iocVars
    /\ UNCHANGED <<recv, dres, comp, cres>>

TermInit ==
    /\ IocIdle
    /\ recv = DescKey("DataDescriptor", DefaultWeakID)
    /\ dres = NoDesc
    /\ term \in LeafPool
    /\ tree = LeafNode(term)
    /\ fcoll = EmptyFColl
    /\ built = [block |-> NoBlock, id |-> 0, err |-> "", of |-> NoTerm, op |-> "none", n |-> 0, res |-> NoTerm,
             operands |-> <<>>, after |-> <<>>]
    /\ CompIdle

TermNext == OrRight \/ OrLeft \/ FBuild \/ FGet \/ DoRetarget

SpecTerm == TermInit /\ [][TermNext]_vars

(* ------------- rebinding descriptors and joining terms ---------------- *)

\* a caller that holds one descriptor and one term, rebinds the one and
\* joins the other
FrameInit ==
    /\ DescInit
    /\ IocIdle
    /\ CompIdle
    /\ term \in LeafPool
    /\ tree = LeafNode(term)
    /\ fcoll = EmptyFColl
    /\ built = [block |-> NoBlock, id |-> 0, err |-> "", of |-> NoTerm, op |-> "none", n |-> 0, res |-> NoTerm,
             operands |-> <<>>, after |-> <<>>]

FrameNext == DoIndex \/ DoIndexWeak \/ DoDescGetItem \/ OrRight \/ OrLeft

SpecFrame == FrameInit /\ [][FrameNext]_vars

(* --------------------- operations on the compensator ------------------ *)

\* the number of calls made on one compensator
MaxCompOps == 4

\* sample counts of the sequences passed in, long enough for np.gradient
\* and for the band-pass filter's padding
Lens == {30, 40}

\* the arguments of fit: four sequences of one recording; in recordings 4
\* and 5 the sequences are not equally long
FitInputs ==
    {[set |-> TRUE, lx |-> 30, ly |-> 30, lz |-> 30, ls |-> 30, rec |-> 1],
     [set |-> TRUE, lx |-> 30, ly |-> 30, lz |-> 30, ls |-> 30, rec |-> 2],
     [set |-> TRUE, lx |-> 40, ly |-> 40, lz |-> 40, ls |-> 40, rec |-> 3],
     [set |-> TRUE, lx |-> 30, ly |-> 40, lz |-> 30, ls |-> 30, rec |-> 4],
     [set |-> TRUE, lx |-> 30, ly |-> 30, lz |-> 30, ls |-> 40, rec |-> 5]}

Called(op, err, block, model, arg) ==
    cres' = [op |-> op, err |-> err, block |-> block, model |-> model, arg |-> arg,
             n |-> cres.n + 1]

CompFrame ==
    /\ UNCHANGED iocVars
    /\ UNCHANGED <<recv, dres>>
    /\ UNCHANGED termVars

\* compensator.fit(vector_x, vector_y, vector_z, scalar)
Fit ==
    /\ cres.n < MaxCompOps
    /\ \E in \in FitInputs :
         /\ comp' = [comp EXCEPT !.src = in]
         /\ Called("fit", "", NoBlock, NoModel, <<in.lx, in.ly, in.lz, in.ls>>)
    /\ CompFrame

\* compensator.do_bpf = value
SetDoBpf ==
    /\ cres.n < MaxCompOps
    /\ \E v \in BOOLEAN :
         /\ comp' = [comp EXCEPT !.do_bpf = v]
         /\ Called("do_bpf", "", NoBlock, NoModel, <<v>>)
    /\ CompFrame

\* compensator.sampling_rate = fs
SetSamplingRate ==
    /\ cres.n < MaxCompOps
    /\ \E fs \in {10, 20} :
         /\ comp' = [comp EXCEPT !.sampling_rate = fs]
         /\ Called("sampling_rate", "", NoBlock, NoModel, <<fs>>)
    /\ CompFrame

\* compensator.using_permanent = use
SetUsingPermanent ==
    /\ cres.n < MaxCompOps
    /\ \E v \in BOOLEAN :
         /\ comp' = [comp EXCEPT !.using_permanent = v]
         /\ Called("using_permanent", "", NoBlock, NoModel, <<v>>)
    /\ CompFrame

\* compensator.using_induced = use
SetUsingInduced ==
    /\ cres.n < MaxCompOps
    /\ \E v \in BOOLEAN :
         /\ comp' = [comp EXCEPT !.using_induced = v]
         /\ Called("using_induced", "", NoBlock, NoModel, <<v>>)
    /\ CompFrame

\* compensator.using_eddy = use
SetUsingEddy ==
    /\ cres.n < MaxCompOps
    /\ \E v \in BOOLEAN :
         /\ comp' = [comp EXCEPT !.using_eddy = v]
         /\ Called("using_eddy", "", NoBlock, NoModel, <<v>>)
    /\ CompFrame

\* compensator.make_X(vector_x, vector_y, vector_z) on sequences of one length
MakeX ==
    /\ cres.n < MaxCompOps
    /\ \E n \in Lens :
         LET r == make_X(comp, n, n, n)
         IN  Called("make_X", r.err, r.block, NoModel, <<n>>)
    /\ UNCHANGED comp
    /\ CompFrame

\* compensator.model: a cached_property, computed by the first access that
\* returns and kept in the instance from then on
AccessModel ==
    /\ cres.n < MaxCompOps
    /\ IF comp.model.fitted
       THEN /\ Called("model", "", NoBlock, comp.model, <<>>)
            /\ UNCHANGED comp
       ELSE LET r == FitModel(comp)
            IN  /\ comp' = IF r.err = "" THEN [comp EXCEPT !.model = r.model] ELSE comp
                /\ Called("model", r.err, NoBlock, r.model, <<>>)
    /\ CompFrame

CompInit ==
    /\ IocIdle
    /\ recv = DescKey("DataDescriptor", DefaultWeakID)
    /\ dres = NoDesc
    /\ TermIdle
    /\ comp \in {NewCompensator(16), NewCompensator(18)}
    /\ cres = NoCall

CompNext ==
    \/ Fit \/ SetDoBpf \/ SetSamplingRate \/ SetUsingPermanent \/ SetUsingInduced
    \/ SetUsingEddy \/ MakeX \/ AccessModel

SpecComp == CompInit /\ [][CompNext]_vars

(* ------------------------------- claims -------------------------------- *)

\* the container state a lookup starts from
Here == [coll |-> coll, lazy |-> lazy, nobj |-> nobj, inv |-> inv, log |-> <<>>]

\* an entry that holds a usable value: present and not None
IsValue(v) == v # Absent /\ v # NoneVal

\* the call a lookup makes first when it runs builder b inside the views outer
InvocationOf(b, outer) == [k |-> b.k, t |-> b.t, sid |-> b.sid, views |-> outer \o b.ctx]

\* C1: compute-once memoization. When get(key) has returned, the next
\* get(key) on the container returns the identical object, runs no builder
\* and leaves every builder's invocation count as it was, whatever value
\* the builder returned.
C1_ComputeOnce ==
    [][(last.op = "get" /\ last.err = "" /\ last'.op = "get" /\ last'.key = last.key)
         => (last'.err = "" /\ last'.ret = last.ret /\ last'.log = <<>> /\ inv' = inv)]_vars

\* C2: index(new_id) with the defaults weak=False, check_overriding=True on
\* a strong descriptor whose id differs from new_id raises the
\* identity-conflict error.
C2_StrongRebindRaises ==
    (/\ dres.op = "index" /\ ~dres.weak /\ dres.check /\ dres.new >= 0
     /\ ~is_weak_id(dres.before) /\ PublicId(dres.before) # dres.new)
        => dres.err

\* C3: index_weak(new_id) with new_id >= 0 never raises; on a weak receiver
\* it returns a weak descriptor of the same type with public id new_id, on
\* a strong receiver it returns the receiver's id and strength unchanged,
\* whether or not the ids differ.
C3_IndexWeak ==
    (dres.op = "index_weak" /\ dres.new >= 0) =>
        /\ ~dres.err
        /\ dres.desc.t = dres.before.t /\ dres.desc.kind = dres.before.kind
        /\ IF dres.before.sid < 0
           THEN dres.desc.sid = -dres.new - 1 /\ PublicId(dres.desc) = dres.new
                /\ is_weak_id(dres.desc)
           ELSE dres.desc = dres.before

\* C3: index_weak was called on a strong receiver with another id
C3_Witness ==
    /\ dres.op = "index_weak" /\ dres.new >= 0
    /\ dres.before.sid >= 0 /\ dres.before.sid # dres.new /\ ~dres.err

\* C4: for every type T the resolved map holds an entry for bare T exactly
\* when it holds one for the id-0 descriptor of T, and the two entries are
\* the identical object.
C4_BareAliasesIdZero ==
    \A t \in Types : coll[TypeKey(t)] = coll[DescKey(t, 0)]

\* C5: resolution order of get(key). A cached value is returned and no
\* builder runs; otherwise the builder registered for exactly the key is
\* the one called; otherwise, for an id-qualified key T[k] of a data type
\* with a builder registered for bare T, that builder is called inside a
\* view with ambient id k and its result is stored under T[k].
C5_ResolutionOrder ==
    [][last'.op = "get" =>
         LET key    == last'.key
             cached == coll[SlotOf(key)]
             exact  == lazy[SlotOf(key)]
             bare   == lazy[TypeKey(key.t)]
         IN  /\ IsValue(cached) =>
                  (last'.err = "" /\ last'.ret = cached /\ last'.log = <<>>)
             /\ (~IsValue(cached) /\ exact # NoBuilder) =>
                  (last'.log # <<>> /\ Head(last'.log) = InvocationOf(exact, <<>>))
             /\ (~IsValue(cached) /\ exact = NoBuilder /\ IsIndexedDTD(key) /\ bare # NoBuilder) =>
                  /\ last'.log # <<>>
                  /\ Head(last'.log) = InvocationOf(bare, <<PublicId(key)>>)
                  /\ last'.err = "" => coll'[SlotOf(key)] = last'.ret]_vars

\* C5: a lookup of MagModulus[1] ran the builder registered for exactly
\* that key although one is registered for bare MagModulus too
C5_Witness ==
    /\ last.op = "get" /\ last.key = IndexedDataTypeDescriptor("MagModulus", 1)
    /\ lazy[TypeKey("MagModulus")] # NoBuilder
    /\ lazy[DescKey("MagModulus", 1)] # NoBuilder
    /\ lazy[DescKey("MagModulus", 1)].k # lazy[TypeKey("MagModulus")].k
    /\ last.log # <<>> /\ Head(last.log).k = lazy[DescKey("MagModulus", 1)].k
    /\ last.err = "" /\ coll[DescKey("MagModulus", 1)] = last.ret

\* C6: strict mode. On a container created with implicit registration
\* disabled, get(key) for a key with no cached value and no builder, exact
\* or of the bare type, raises not-found and leaves the resolved map and
\* the builder table as they were.
C6_StrictNotFound ==
    [][(/\ last'.op = "get" /\ ~allow
        /\ ~IsValue(coll[SlotOf(last'.key)])
        /\ lazy[SlotOf(last'.key)] = NoBuilder
        /\ lazy[TypeKey(last'.key.t)] = NoBuilder)
         => (last'.err = "notfound" /\ coll' = coll /\ lazy' = lazy)]_vars

\* C6: a strict container refused the lookup of an unregistered key itself
C6_Witness ==
    /\ last.op = "get" /\ ~allow /\ last.err = "notfound" /\ last.log = <<>>
    /\ lazy[SlotOf(last.key)] = NoBuilder

\* the build method a key brings itself: the bound __build__ of a
\* descriptor instance, the __build__ attribute of a class
OwnBuild(key) ==
    [k   |-> IF key.kind = "desc"
             THEN IF key.t \in DataTypes THEN "idxbuild" ELSE "descbuild"
             ELSE IF key.t \in DescTypes THEN "unbound" ELSE "typebuild",
     t   |-> key.t,
     sid |-> IF key.kind = "desc" THEN key.sid ELSE 0]

ViewPublicId == IF vid < 0 THEN -vid - 1 ELSE vid

\* C8: a view with ambient id k over base C. get of a weak descriptor D
\* returns what C.get(D rebound to k) returns, get of a bare type T what
\* C.get(T[k]) returns; the value is stored in C under the id-k key and the
\* view's own maps are left as they were.
C8_ViewRebinds ==
    [][(/\ last'.op = "viewget"
        /\ last'.key.kind = "type" \/ last'.key.sid < 0)
         => LET target == DescKey(last'.key.t, ViewPublicId)
                r      == DoGet(Here, target)
            IN  /\ last'.err = r.err
                /\ last'.ret = r.ret
                /\ last'.err = "" => coll'[target] = last'.ret
                /\ vcoll' = vcoll /\ vlazy' = vlazy]_vars

\* C8: through a view with ambient id 1 the bare type MagModulus resolved
\* to a value that the base holds under MagModulus[1] and not under
\* MagModulus[0]
C8_Witness ==
    /\ last.op = "viewget" /\ vid = 1 /\ last.key = TypeKey("MagModulus")
    /\ last.err = "" /\ IsValue(last.ret)
    /\ coll[DescKey("MagModulus", 1)] = last.ret
    /\ coll[DescKey("MagModulus", 0)] # last.ret
    /\ vcoll = EmptyColl

\* C9: a strong descriptor D with id j looked up through a view with
\* ambient id k, j equal to k or not, is looked up in the base as D: the
\* call returns, raises and changes what C.get(D) does, and a returned
\* value is the base's entry for id j.
C9_StrongPassesThrough ==
    [][(last'.op = "viewget" /\ last'.key.kind = "desc" /\ last'.key.sid >= 0)
         => LET r == DoGet(Here, last'.key)
            IN  /\ last'.err = r.err /\ last'.ret = r.ret
                /\ coll' = r.st.coll /\ lazy' = r.st.lazy
                /\ last'.err = "" => last'.ret = coll'[DescKey(last'.key.t, last'.key.sid)]]_vars

\* C9: through a view with ambient id 1 the explicit MagVector[0] returned
\* the entry of id 0 while id 1 holds another object
C9_Witness ==
    /\ last.op = "viewget" /\ vid = 1
    /\ last.key = IndexedDataTypeDescriptor("MagVector", 0)
    /\ last.err = "" /\ IsValue(last.ret)
    /\ last.ret = coll[DescKey("MagVector", 0)]
    /\ IsValue(coll[DescKey("MagVector", 1)])
    /\ coll[DescKey("MagVector", 1)] # last.ret

\* C10: every registration made through a view (set, with_data, add,
\* add_provider) takes effect in the base container's maps, the view keeps
\* no registrations of its own, and the implicit-registration flag read
\* through the view is the base container's.
C10_ViewDelegates ==
    [][/\ last'.op = "viewset" => coll' = SetItem(coll, last'.key, last'.ret)
       /\ last'.op = "viewwith_data" =>
            coll' = WithDataColl(coll, nobj, <<<<last'.key, last'.ret.d>>>>)
       /\ last'.op = "viewadd" => lazy' = AddLazy(lazy, last'.key)
       /\ last'.op = "viewadd_provider" => lazy' = AddProviderLazy(lazy, last'.key, last'.parg)
       /\ vcoll' = EmptyColl /\ vlazy' = EmptyLazy
       /\ ViewAllowImplicitRegister = allow]_vars

\* C11: instance multiplexing. MagModulus reads only the bare type
\* MagVector. Whenever a lookup of a MagModulus key of public id i builds
\* the value with MagModulus's own build method, the value is the function
\* of the raw MagVector data bound at id i alone, and the resolved entries
\* of every other id are left as they were, whatever is bound or already
\* resolved at the other ids.
C11_NoCrossContamination ==
    [][(/\ last'.op = "get" /\ last'.key.t = "MagModulus" /\ last'.err = ""
        /\ last'.log # <<>>
        /\ Head(last'.log).t = "MagModulus"
        /\ Head(last'.log).k \in {"idxbuild", "typebuild"})
         => LET i   == IF last'.key.kind = "type" THEN 0 ELSE PublicId(last'.key)
                raw == coll[DescKey("MagVector", i)]
            IN  /\ IsValue(raw)
                /\ last'.ret.d = BuildValue("MagModulus", <<raw>>)
                /\ \A t \in Types, j \in Ids \ {i} :
                     coll'[DescKey(t, j)] = coll[DescKey(t, j)]]_vars

\* C11: MagModulus was built at id 1 after it had been resolved at id 0, the
\* raw data of the two ids differ and so do the two values
C11_Witness ==
    /\ last.op = "get" /\ last.err = "" /\ last.log # <<>>
    /\ last.key = IndexedDataTypeDescriptor("MagModulus", 1)
    /\ IsValue(coll[DescKey("MagVector", 0)]) /\ IsValue(coll[DescKey("MagVector", 1)])
    /\ coll[DescKey("MagVector", 0)].d # coll[DescKey("MagVector", 1)].d
    /\ IsValue(coll[DescKey("MagModulus", 0)])
    /\ coll[DescKey("MagModulus", 0)].d # last.ret.d
    /\ last.ret.d = BuildValue("MagModulus", <<coll[DescKey("MagVector", 1)]>>)

\* C12: descriptor identity. Two descriptors compare equal exactly when
\* they have the same concrete type, the same instance id (the public id;
\* a weak and a strong descriptor of one id are one identity) and the same
\* value of every extra constructor parameter (the wrapped data type of an
\* IndexedDataTypeDescriptor), and two equal descriptors have the same hash.
C12_DescriptorIdentity ==
    dres.op = "eq" =>
        LET a == dres.before
            b == dres.desc
            sameType   == (a.t \in DataTypes /\ b.t \in DataTypes) \/ a.t = b.t
            sameId     == PublicId(a) = PublicId(b)
            sameParams == (a.t \in DataTypes /\ b.t \in DataTypes) => a.t = b.t
        IN  /\ dres.eq <=> (sameType /\ sameId /\ sameParams)
            /\ dres.eq => dres.hself = dres.hother

\* C12: two descriptors of one type and one id compared equal, one weak and
\* one strong
C12_Witness ==
    /\ dres.op = "eq" /\ dres.eq /\ dres.before # dres.desc
    /\ dres.before.t = "MagVector" /\ dres.hself = dres.hother

\* the leaves an expression names, left to right
RECURSIVE LeavesOf(_)
LeavesOf(e) == IF e.leaf THEN <<e.x>> ELSE LeavesOf(e.l) \o LeavesOf(e.r)

\* C13: flattening and associativity of |. However the expression is
\* parenthesised, the Composition it yields lists exactly the leaves of the
\* expression in their left-to-right order, and no element of the list is
\* itself a Composition.
C13_Flattening ==
    IsComposition(term) =>
        /\ term.terms = LeavesOf(tree)
        /\ \A i \in DOMAIN term.terms : ~IsComposition(term.terms[i])

\* C13: a right-nested expression A | (B | C) yielded the flat list of its
\* three leaves
C13_Witness ==
    /\ IsComposition(term) /\ ~tree.leaf
    /\ tree.l.leaf /\ ~tree.r.leaf /\ tree.r.l.leaf /\ tree.r.r.leaf
    /\ term.terms = <<tree.l.x, tree.r.l.x, tree.r.r.x>>
    /\ tree.l.x.t # tree.r.l.x.t

\* the number of columns of the first n leaves of a term list
RECURSIVE WidthUpTo(_, _)
WidthUpTo(ts, n) == IF n = 0 THEN 0 ELSE WidthUpTo(ts, n - 1) + Width(ts[n].t)

\* C14: Composition.__build__ concatenates the leaves' column blocks in
\* declaration order. The result has the sum of the leaf widths as its
\* column count and the row count of the data of the id, and the columns of
\* leaf i are the contiguous range after the columns of leaves 1..i-1, a
\* leaf listed twice contributing its columns twice.
C14_BuildConcatenates ==
    (built.op = "build" /\ built.err = "") =>
        LET ts == built.of.terms
        IN  /\ Len(built.block.cols) = WidthUpTo(ts, Len(ts))
            /\ built.block.rows = Rows(built.id)
            /\ \A i \in DOMAIN ts : \A j \in 1..Width(ts[i].t) :
                 built.block.cols[WidthUpTo(ts, i - 1) + j] = LeafBlock(ts[i].t, built.id).cols[j]

\* C14: a composition that lists Eddy8 twice was built
C14_Witness ==
    /\ built.op = "build" /\ built.err = "" /\ Len(built.of.terms) >= 3
    /\ \E i, j \in DOMAIN built.of.terms :
         i < j /\ built.of.terms[i].t = "Eddy8" /\ built.of.terms[j].t = "Eddy8"
    /\ Len(built.block.cols) >= 2 * Width("Eddy8") + Width("Permanent")

Induced5Columns == <<"cos_xx", "cos_xy", "cos_xz", "cos_yz", "cos_zz">>

Eddy8Columns ==
    <<"cos_x_cos_x_dot", "cos_x_cos_y_dot", "cos_x_cos_z_dot", "cos_y_cos_x_dot",
      "cos_y_cos_z_dot", "cos_z_cos_x_dot", "cos_z_cos_y_dot", "cos_z_cos_z_dot">>

C17_ModelFollowsConfiguration ==
    (cres.op = "model" /\ cres.err = "") => cres.model = FitModel(comp).model

\* C18: fit with four sequences that are not all equally long fails at the
\* call and stores none of them.
C18_FitChecksLengths ==
    [][(/\ cres'.op = "fit" /\ cres'.n = cres.n + 1
        /\ \E i, j \in DOMAIN cres'.arg : cres'.arg[i] # cres'.arg[j])
         => (cres'.err # "" /\ comp'.src = comp.src)]_vars

\* the public id of a signed id
PublicOf(sid) == IF sid < 0 THEN -sid - 1 ELSE sid

\* C19: a provider registered under the descriptor key T[k] runs, at the
\* next lookup of T[k], inside one view whose ambient id is k, whether the
\* provider is a type with a build method, a plain callable or a
\* descriptor instance.
C19_ProviderRunsAtKeyId ==
    [][(/\ last.op = "add_provider" /\ last.key.kind = "desc"
        /\ last'.op = "get" /\ last'.key = last.key
        /\ ~IsValue(coll[SlotOf(last.key)]))
         => /\ last'.log # <<>>
            /\ Len(Head(last'.log).views) = 1
            /\ PublicOf(Head(last'.log).views[1]) = PublicId(last.key)]_vars

\* C20: frame of the resolved map. add(key) without data and add_provider
\* run no builder and leave the resolved map as it was; the map changes
\* only in set, with_data and get; a get of a cached key changes nothing;
\* a get that returns has stored what it returns under the key; a get that
\* raises, not-found or from a builder, writes nothing under the key, which
\* is left without a value.
C20_ResolvedFrame ==
    [][LET key == last'.key
       IN  /\ last'.op \in {"add", "add_provider"} =>
                (coll' = coll /\ inv' = inv /\ nobj' = nobj /\ last'.log = <<>>)
           /\ coll' # coll => last'.op \in {"set", "with_data", "get"}
           /\ (last'.op = "get" /\ IsValue(coll[SlotOf(key)])) => coll' = coll
           /\ (last'.op = "get" /\ last'.err = "") => coll'[SlotOf(key)] = last'.ret
           /\ (last'.op = "get" /\ last'.err # "") =>
                (coll'[SlotOf(key)] = coll[SlotOf(key)] /\ ~IsValue(coll'[SlotOf(key)]))]_vars

\* C20: a provider was registered for MagModulus[1] by a deferred bind and
\* the lookup that then ran it raised from the builder: the resolved map
\* has no entry under MagModulus[1]
C20_Witness ==
    /\ last.op = "get" /\ last.err # "" /\ last.log # <<>>
    /\ last.key = IndexedDataTypeDescriptor("MagModulus", 1)
    /\ lazy[SlotOf(last.key)] # NoBuilder
    /\ coll[SlotOf(last.key)] = Absent

\* C21: the signed id encoding. A descriptor created without an instance
\* is weak with public id 0; a weak binding to k >= 0 that rebinds (the
\* receiver is weak) stores the code -k-1 and reports public id k and weak;
\* a strong binding to k >= 0, by index(k) or descriptor[k], stores k and
\* reports public id k and not weak; the public id of every descriptor
\* reached is non-negative.
C21_SignedIdEncoding ==
    /\ PublicId(recv) >= 0 /\ PublicId(dres.desc) >= 0 /\ PublicId(dres.before) >= 0
    /\ (dres.op = "none" /\ signed_id(recv) = DefaultWeakID) =>
            (is_weak_id(recv) /\ PublicId(recv) = 0)
    /\ (/\ dres.op \in {"index", "index_weak"} /\ dres.weak /\ dres.new >= 0
        /\ is_weak_id(dres.before)) =>
            /\ ~dres.err
            /\ signed_id(dres.desc) = -dres.new - 1
            /\ PublicId(dres.desc) = dres.new /\ is_weak_id(dres.desc)
    /\ (dres.op \in {"index", "getitem"} /\ ~dres.weak /\ dres.new >= 0) =>
            /\ ~dres.err
            /\ signed_id(dres.desc) = dres.new
            /\ PublicId(dres.desc) = dres.new /\ ~is_weak_id(dres.desc)

\* C21: a weak descriptor of public id 1 was bound weakly to 0 and holds
\* the code -1
C21_Witness ==
    /\ dres.op = "index_weak" /\ dres.new = 0 /\ ~dres.err
    /\ signed_id(dres.before) = -2 /\ signed_id(dres.desc) = -1
    /\ PublicId(dres.desc) = 0 /\ recv = dres.desc

\* the columns leaf i of the term list ts has in the built block b
ColumnsOfLeaf(b, ts, i) == SubSeq(b.cols, WidthUpTo(ts, i - 1) + 1, WidthUpTo(ts, i))

\* C22: the reduced feature variants. The block an Induced5 leaf builds is
\* the 6-column block xx, xy, xz, yy, yz, zz without the yy column and with
\* the other five in their order; the block an Eddy8 leaf builds is the
\* 9-column block without the column y times derivative of y and with the
\* other eight in their order; and both are the lists the compensator
\* selects for 16 coefficients from the same full lists.
C22_ReducedVariants ==
    (built.op = "build" /\ built.err = "") =>
        LET ts  == built.of.terms
            c16 == _compute_directional_cosine_components(NewCompensator(16))
            c18 == _compute_directional_cosine_components(NewCompensator(18))
        IN  \A i \in DOMAIN ts :
              /\ ts[i].t = "Induced5" =>
                   /\ Induced6Build[4] = "cos_yy" /\ Len(Induced6Build) = 6
                   /\ ColumnsOfLeaf(built.block, ts, i)
                        = SubSeq(Induced6Build, 1, 3) \o SubSeq(Induced6Build, 5, 6)
                   /\ c18.induced = Induced6Build
                   /\ ColumnsOfLeaf(built.block, ts, i) = c16.induced
              /\ ts[i].t = "Eddy8" =>
                   /\ Eddy9Build[5] = "cos_y_cos_y_dot" /\ Len(Eddy9Build) = 9
                   /\ ColumnsOfLeaf(built.block, ts, i)
                        = SubSeq(Eddy9Build, 1, 4) \o SubSeq(Eddy9Build, 6, 9)
                   /\ c18.eddy = Eddy9Build
                   /\ ColumnsOfLeaf(built.block, ts, i) = c16.eddy

\* C22: a composition holding an Induced5 and an Eddy8 leaf was built
C22_Witness ==
    /\ built.op = "build" /\ built.err = "" /\ IsComposition(built.of)
    /\ \E i, j \in DOMAIN built.of.terms :
         /\ built.of.terms[i].t = "Induced5" /\ built.of.terms[j].t = "Eddy8"
         /\ Len(ColumnsOfLeaf(built.block, built.of.terms, i)) = 5
         /\ Len(ColumnsOfLeaf(built.block, built.of.terms, j)) = 8

C24_GetTerminates ==
    (run.status = "running") ~> (run.status \in {"returned", "raised"})

\* the result of the whole call as DataIOC.__getitem__ computes it at once
RunAsDoGet ==
    DoGet([coll |-> run.at.coll, lazy |-> run.at.lazy, nobj |-> run.at.nobj,
           inv |-> inv, log |-> <<>>], run.key)

\* the step that ends a call leaves the container and the caller with what
\* DataIOC.__getitem__ gives
RunAgreesWithDoGet ==
    [][(run.status = "running" /\ run'.status \in {"returned", "raised"}) =>
         /\ coll' = RunAsDoGet.st.coll /\ lazy' = RunAsDoGet.st.lazy
         /\ nobj' = RunAsDoGet.st.nobj
         /\ run'.err = RunAsDoGet.err
         /\ run'.status = "returned" => run'.ret = RunAsDoGet.ret]_vars

\* C24: on a permissive container a lookup of an unregistered descriptor
\* registered its build method, called itself, ran the builder, which
\* looked its dependencies up, and returned
C24_Witness ==
    /\ run.status = "returned" /\ allow /\ run.depth >= 4
    /\ run.at.lazy[SlotOf(run.key)] = NoBuilder
    /\ IsValue(run.ret) /\ coll[SlotOf(run.key)] = run.ret

\* the descriptor of the same type and public id and of the other strength
Twin(d) == [d EXCEPT !.sid = IF @ < 0 THEN -@ - 1 ELSE -@ - 1]

\* C25: a weak and a strong descriptor of one type and one public id are
\* one cache key. They are equal and hash alike, and the container keys
\* its maps as that equality says; a lookup with one returns the value the
\* resolved map holds under the other and runs no builder, stores what it
\* built where the other finds it, runs the builder registered under the
\* other as its exact match, and returns the object the lookup with the
\* other returned just before.
C25_WeakStrongOneKey ==
    [][(last'.op = "get" /\ last'.key.kind = "desc") =>
         LET key  == last'.key
             twin == Twin(key)
         IN  /\ is_weak_id(key) # is_weak_id(twin) /\ PublicId(key) = PublicId(twin)
             /\ __eq__(key, twin) /\ __hash__(key) = __hash__(twin)
             /\ \A d \in Descriptors :
                  (SlotOf(key) = SlotOf(d)) <=> (__eq__(key, d) /\ __hash__(key) = __hash__(d))
             /\ IsValue(coll[SlotOf(twin)]) =>
                  (last'.err = "" /\ last'.ret = coll[SlotOf(twin)] /\ last'.log = <<>>)
             /\ (last'.err = "" /\ IsValue(last'.ret)) => coll'[SlotOf(twin)] = last'.ret
             /\ (~IsValue(coll[SlotOf(twin)]) /\ lazy[SlotOf(twin)] # NoBuilder) =>
                  (last'.log # <<>> /\ Head(last'.log) = InvocationOf(lazy[SlotOf(twin)], <<>>))
             /\ (last.op = "get" /\ last.key = twin /\ last.err = "" /\ IsValue(last.ret)) =>
                  (last'.err = "" /\ last'.ret = last.ret /\ last'.log = <<>>)]_vars

\* C25: the value built by a lookup of the weak MagModulus of public id 1
\* was returned by the lookup of the strong MagModulus[1] that followed
C25_Witness ==
    /\ last.op = "get" /\ last.key = DescKey("MagModulus", 1) /\ last.err = ""
    /\ last.log = <<>> /\ IsValue(last.ret)
    /\ inv[DescKey("MagModulus", 1)] = 1 /\ lazy[DescKey("MagModulus", 1)].sid = -2

\* container[first] and then container[second] on the container as it is:
\* the two results; a lookup that raised leaves the container usable
TwoGets(first, second) ==
    LET r1 == DoGet(Here, first)
        r2 == DoGet([r1.st EXCEPT !.log = <<>>], second)
    IN  <<r1, r2>>

\* C26: bare T and T[0] are interchangeable whatever the order. On a
\* container with given registrations, get(T) followed by get(T[0]) and
\* get(T[0]) followed by get(T) both succeed or both fail, and the two
\* orders yield equal values.
C26_OrderIndependent ==
    \A t \in DataTypes :
        LET a == TwoGets(TypeKey(t), IndexedDataTypeDescriptor(t, 0))
            b == TwoGets(IndexedDataTypeDescriptor(t, 0), TypeKey(t))
        IN  /\ (a[1].err = "" /\ a[2].err = "") <=> (b[1].err = "" /\ b[2].err = "")
            /\ (a[2].err = "" /\ b[2].err = "") => a[2].ret.d = b[2].ret.d
            /\ (a[1].err = "" /\ b[2].err = "") => a[1].ret.d = b[2].ret.d

\* C27: container[x][id] for a term instance x returns the data x's own
\* __build__ computes for id, whatever other instances of the class of x
\* were looked up in the container before.
C27_OwnBuild ==
    (built.op = "get" /\ built.err = "") =>
        built.block = TermBuild(EmptyFColl, built.of, built.id).block

====
